---- MODULE Spec2Model ----
(***************************************************************************)
(* StorageManager (src/modules/storage.py): the JSON record store of the   *)
(* audio -> text -> cipher converter.  The state is the backing file       *)
(* conversiones.json; every operation re-reads the whole file, changes the *)
(* document in memory and rewrites the whole file.                         *)
(***************************************************************************)
EXTENDS Integers, Sequences, FiniteSets, TLC

VARIABLES
    archivo,    \* the backing file: [estado, doc]
    resultado,  \* what the last operation did and gave back to its caller
    antes,      \* history: the backing file when the last operation began
    leido,      \* history: the backing file after the last operation's read step
    devueltos,  \* history: records returned by agregar_conversion since the
                \* file was last (re)initialised to the empty document
    max_previo, \* history: the highest id agregar_conversion returned before
                \* the last operation (0: none)
    entrada,    \* the registro a single call of agregar_conversion is given
    hilos,      \* the threads running agregar_conversion: where each one is
                \* and what it holds
    gui,        \* AppGUI: its fields and the dialog it last showed
    audio       \* the audio files on disk and what the last call of
                \* extraer_texto_de_audio did

vars == <<archivo, resultado, antes, leido, devueltos, max_previo,
          entrada, hilos, gui, audio>>
almacen == <<archivo, resultado, antes, leido, devueltos, max_previo>>

\* ------------------------------------------------------------------ bounds
MaxRegs == 3    \* agregar_conversion is called only while the list is shorter
MaxReloj == 1   \* distinct instants datetime.utcnow() can give

\* ------------------------------------------------------- Python values
\* A value is [t, v]: its type and its content as a sequence of numbers
\* (code points of a str, byte values of a bytes, the number, the identity
\* of a mapping).
PyNone == [t |-> "None", v |-> <<>>]
PyStr(s) == [t |-> "str", v |-> s]
PyBytes(b) == [t |-> "bytes", v |-> b]
PyNum(n) == [t |-> "num", v |-> <<n>>]
PyDict(k) == [t |-> "dict", v |-> <<k>>]

\* ---------------------------------------------------------- JSON values
JsNull == [t |-> "null", v |-> <<>>]
JsNoSerializable == [t |-> "TypeError", v |-> <<>>]

\* json.dump of one value: None -> null, str -> string, int/float -> number,
\* dict -> object; bytes are not JSON serializable (TypeError).
json_dump_val(x) ==
    CASE x.t = "None" -> JsNull
      [] x.t = "str" -> [t |-> "string", v |-> x.v]
      [] x.t = "num" -> [t |-> "number", v |-> x.v]
      [] x.t = "dict" -> [t |-> "object", v |-> x.v]
      [] OTHER -> JsNoSerializable

\* json.load of one value.
json_load_val(j) ==
    CASE j.t = "null" -> PyNone
      [] j.t = "string" -> [t |-> "str", v |-> j.v]
      [] j.t = "number" -> [t |-> "num", v |-> j.v]
      [] j.t = "object" -> [t |-> "dict", v |-> j.v]
      [] OTHER -> PyNone

\* ------------------------------------------------------------- codecs
\* bytes.decode('utf-8'): one-byte and two-byte forms; any other lead byte
\* of the bytes used here (0x80..0xC1, 0xF5..0xFF) is invalid.
RECURSIVE utf8_decode(_)
utf8_decode(b) ==
    IF b = <<>> THEN [ok |-> TRUE, s |-> <<>>]
    ELSE IF b[1] < 128
    THEN LET r == utf8_decode(Tail(b))
         IN [ok |-> r.ok, s |-> <<b[1]>> \o r.s]
    ELSE IF b[1] >= 194 /\ b[1] <= 223 /\ Len(b) >= 2
            /\ b[2] >= 128 /\ b[2] <= 191
    THEN LET r == utf8_decode(SubSeq(b, 3, Len(b)))
         IN [ok |-> r.ok, s |-> <<(b[1] - 192) * 64 + (b[2] - 128)>> \o r.s]
    ELSE [ok |-> FALSE, s |-> <<>>]

\* The Base64 alphabet: A-Z a-z 0-9 + /
b64_char(i) ==
    IF i < 26 THEN 65 + i
    ELSE IF i < 52 THEN 97 + (i - 26)
    ELSE IF i < 62 THEN 48 + (i - 52)
    ELSE IF i = 62 THEN 43 ELSE 47

\* base64.b64encode: three bytes give four characters, '=' pads the rest.
RECURSIVE b64encode(_)
b64encode(b) ==
    IF b = <<>> THEN <<>>
    ELSE IF Len(b) = 1
    THEN <<b64_char(b[1] \div 4), b64_char((b[1] % 4) * 16), 61, 61>>
    ELSE IF Len(b) = 2
    THEN <<b64_char(b[1] \div 4),
           b64_char((b[1] % 4) * 16 + (b[2] \div 16)),
           b64_char((b[2] % 16) * 4), 61>>
    ELSE <<b64_char(b[1] \div 4),
           b64_char((b[1] % 4) * 16 + (b[2] \div 16)),
           b64_char((b[2] % 16) * 4 + (b[3] \div 64)),
           b64_char(b[3] % 64)>> \o b64encode(SubSeq(b, 4, Len(b)))

\* str.encode('utf-8') of code points below 0x800.
RECURSIVE utf8_encode(_)
utf8_encode(s) ==
    IF s = <<>> THEN <<>>
    ELSE IF s[1] < 128 THEN <<s[1]>> \o utf8_encode(Tail(s))
    ELSE <<192 + (s[1] \div 64), 128 + (s[1] % 64)>> \o utf8_encode(Tail(s))

\* The place of a character in the Base64 alphabet.
EsB64(c) == \E i \in 0..63 : b64_char(i) = c
b64_val(c) == CHOOSE i \in 0..63 : b64_char(i) = c

\* datetime.isoformat() of instant t, as code points.
isoformat(t) == <<t>>

\* ------------------------------------------------------------ records
\* What a caller passes to agregar_conversion: registro.get(k) of each key.
Registro(ao, ru, te, enc, cm, du, ia) ==
    [archivo_origen |-> ao, ruta |-> ru, texto |-> te, texto_encriptado |-> enc,
     codigo_maquina |-> cm, duracion_segundos |-> du, info_audio |-> ia]

\* The sample calls.  gA.. is how a Fernet token starts; 0xC3 0xA9 is a
\* two-byte UTF-8 character; 0xFF is never valid UTF-8.
RegGui == Registro(PyStr(<<97>>), PyStr(<<47, 97>>), PyStr(<<104, 105>>),
                   PyBytes(<<103, 65>>), PyStr(<<85, 107, 108>>),
                   PyNum(3), PyDict(1))
RegBytes == Registro(PyStr(<<98>>), PyStr(<<47, 98>>), PyNone,
                     PyBytes(<<195, 169>>), PyBytes(<<82, 73, 70, 70>>),
                     PyNone, PyDict(2))
RegNoUtf8 == Registro(PyStr(<<97>>), PyStr(<<47, 97>>), PyStr(<<104, 105>>),
                      PyBytes(<<255>>), PyNone, PyNum(3), PyDict(1))
RegNoSerializable == Registro(PyStr(<<97>>), PyStr(<<47, 97>>), PyBytes(<<104>>),
                              PyNone, PyNone, PyNum(3), PyDict(1))
Registros == {RegGui, RegBytes, RegNoUtf8, RegNoSerializable}

\* A record of the list, in memory (rk = "dict") or in the file
\* (rk = "object").  idk tells what the record's 'id' is: an integer id, a
\* float id + 0.5, a string, or no 'id' key at all.
Item(rk, idk, id, campos, fecha) ==
    [rk |-> rk, idk |-> idk, id |-> id, campos |-> campos, fecha |-> fecha]

CamposDump(c) ==
    [archivo_origen |-> json_dump_val(c.archivo_origen),
     ruta |-> json_dump_val(c.ruta),
     texto |-> json_dump_val(c.texto),
     texto_encriptado |-> json_dump_val(c.texto_encriptado),
     codigo_maquina |-> json_dump_val(c.codigo_maquina),
     duracion_segundos |-> json_dump_val(c.duracion_segundos),
     info_audio |-> json_dump_val(c.info_audio)]

CamposLoad(c) ==
    [archivo_origen |-> json_load_val(c.archivo_origen),
     ruta |-> json_load_val(c.ruta),
     texto |-> json_load_val(c.texto),
     texto_encriptado |-> json_load_val(c.texto_encriptado),
     codigo_maquina |-> json_load_val(c.codigo_maquina),
     duracion_segundos |-> json_load_val(c.duracion_segundos),
     info_audio |-> json_load_val(c.info_audio)]

CamposSerializables(c) ==
    /\ c.archivo_origen.t # "bytes" /\ c.ruta.t # "bytes" /\ c.texto.t # "bytes"
    /\ c.texto_encriptado.t # "bytes" /\ c.codigo_maquina.t # "bytes"
    /\ c.duracion_segundos.t # "bytes" /\ c.info_audio.t # "bytes"

\* The type names of the two sides: dict/object, list/array, ...
TagDump(t) ==
    CASE t = "dict" -> "object" [] t = "list" -> "array" [] t = "str" -> "string"
      [] t = "num" -> "number" [] t = "None" -> "null" [] OTHER -> t
TagLoad(t) ==
    CASE t = "object" -> "dict" [] t = "array" -> "list" [] t = "string" -> "str"
      [] t = "number" -> "num" [] t = "null" -> "None" [] OTHER -> t

ItemDump(r) ==
    Item(TagDump(r.rk), r.idk, r.id, CamposDump(r.campos), json_dump_val(r.fecha))
ItemLoad(r) ==
    Item(TagLoad(r.rk), r.idk, r.id, CamposLoad(r.campos), json_load_val(r.fecha))

\* ----------------------------------------------------------- documents
\* A document is [top, ck, items]: the type of the top-level value, the type
\* of what its key 'conversiones' holds ("ausente": no such key), and the
\* elements when that is a list.
Documento(top, ck, items) == [top |-> top, ck |-> ck, items |-> items]

\* {"conversiones": []}
DocVacio == Documento("object", "array", <<>>)
DataVacio == Documento("dict", "list", <<>>)
SinDoc == Documento("ninguno", "ausente", <<>>)

\* json.dump(data, f) / json.load(f) of the whole document.
json_dump(data) ==
    Documento(TagDump(data.top), TagDump(data.ck),
              [i \in 1..Len(data.items) |-> ItemDump(data.items[i])])
json_load(doc) ==
    Documento(TagLoad(doc.top), TagLoad(doc.ck),
              [i \in 1..Len(doc.items) |-> ItemLoad(doc.items[i])])
Serializable(data) ==
    \A i \in 1..Len(data.items) : CamposSerializables(data.items[i].campos)

\* --------------------------------------------------------------- file
\* estado: "ausente" (no such file), "texto_invalido" (text that is not JSON:
\* empty, truncated, garbage), "json" (doc is the value the text parses to).
Archivo(estado, doc) == [estado |-> estado, doc |-> doc]
ArchivoVacio == Archivo("json", DocVacio)
\* open(archivo, 'w') has truncated the file and nothing complete followed.
ArchivoTruncado == Archivo("texto_invalido", SinDoc)
ArchivoAusente == Archivo("ausente", SinDoc)

\* How a write can end: "ok"; "fallo_abrir": open(.., 'w') raises (read-only
\* file, directory gone), nothing touched; "fallo_volcar": the file was opened
\* and truncated, then json.dump or the flush at close raises (disk full).
Escrituras == {"ok", "fallo_abrir", "fallo_volcar"}

\* ----------------------------------------------------- StorageManager
\* _inicializar_archivo: open(.., 'w') and json.dump({"conversiones": []});
\* nothing catches what it raises.
inicializar_archivo(a, w) ==
    CASE w = "ok" -> [exc |-> FALSE, archivo |-> ArchivoVacio]
      [] w = "fallo_abrir" -> [exc |-> TRUE, archivo |-> a]
      [] OTHER -> [exc |-> TRUE, archivo |-> ArchivoTruncado]

\* A faulty variant: the file is rewritten on every read.
leer_todo_reescribe(a, w) ==
    LET i == inicializar_archivo(a, w)
    IN IF a.estado = "json"
       THEN [exc |-> FALSE, data |-> json_load(a.doc), archivo |-> i.archivo,
             reinit |-> FALSE]
       ELSE [exc |-> i.exc, data |-> DataVacio, archivo |-> i.archivo,
             reinit |-> ~i.exc]

\* _leer_todo: json.load of the file; on any exception _inicializar_archivo
\* (whose write ends as w) and the empty document.
leer_todo(a, w) ==
    IF a.estado = "json"
    THEN [exc |-> FALSE, data |-> json_load(a.doc), archivo |-> a, reinit |-> FALSE]
    ELSE LET i == inicializar_archivo(a, w)
         IN [exc |-> i.exc, data |-> DataVacio, archivo |-> i.archivo,
             reinit |-> ~i.exc]

\* A faulty variant: True is returned whatever happened.
escribir_todo_siempre_true(a, data, w) ==
    IF w = "fallo_abrir" THEN [exito |-> TRUE, archivo |-> a]
    ELSE IF w = "fallo_volcar" \/ ~Serializable(data)
    THEN [exito |-> TRUE, archivo |-> ArchivoTruncado]
    ELSE [exito |-> TRUE, archivo |-> Archivo("json", json_dump(data))]

\* _escribir_todo: open(.., 'w') truncates, json.dump writes; any exception
\* gives False.
escribir_todo(a, data, w) ==
    IF w = "fallo_abrir" THEN [exito |-> FALSE, archivo |-> a]
    ELSE IF w = "fallo_volcar" \/ ~Serializable(data)
    THEN [exito |-> FALSE, archivo |-> ArchivoTruncado]
    ELSE [exito |-> TRUE, archivo |-> Archivo("json", json_dump(data))]

\* A faulty variant: the list read from the file is dropped.
conversiones_de_vacia(data) == [ck |-> "list", items |-> <<>>]

\* data.get("conversiones", [])
conversiones_de(data) ==
    IF data.ck = "ausente" THEN [ck |-> "list", items |-> <<>>]
    ELSE [ck |-> data.ck, items |-> data.items]

\* A faulty variant: the last id is reused, not incremented.
next_id_sin_incremento(conv) ==
    IF conv.ck = "None" \/ (conv.ck = "list" /\ conv.items = <<>>)
    THEN [exc |-> FALSE, idk |-> "int", id |-> 1]
    ELSE IF conv.ck # "list" THEN [exc |-> TRUE, idk |-> "int", id |-> 0]
    ELSE LET ult == conv.items[Len(conv.items)]
         IN IF ult.rk = "dict" /\ ult.idk \in {"int", "float"}
            THEN [exc |-> FALSE, idk |-> ult.idk, id |-> ult.id]
            ELSE [exc |-> TRUE, idk |-> "int", id |-> 0]

\* A faulty variant: the first record's id is incremented, not the last's.
next_id_del_primero(conv) ==
    IF conv.ck = "None" \/ (conv.ck = "list" /\ conv.items = <<>>)
    THEN [exc |-> FALSE, idk |-> "int", id |-> 1]
    ELSE IF conv.ck # "list" THEN [exc |-> TRUE, idk |-> "int", id |-> 0]
    ELSE LET ult == conv.items[1]
         IN IF ult.rk = "dict" /\ ult.idk \in {"int", "float"}
            THEN [exc |-> FALSE, idk |-> ult.idk, id |-> ult.id + 1]
            ELSE [exc |-> TRUE, idk |-> "int", id |-> 0]

\* next_id = (conversiones[-1]['id'] + 1) if conversiones else 1
\* A str or number under 'conversiones' is taken non-empty / non-zero (truthy):
\* indexing it raises.  None is falsy.
next_id(conv) ==
    IF conv.ck = "None" \/ (conv.ck = "list" /\ conv.items = <<>>)
    THEN [exc |-> FALSE, idk |-> "int", id |-> 1]
    ELSE IF conv.ck # "list" THEN [exc |-> TRUE, idk |-> "int", id |-> 0]
    ELSE LET ult == conv.items[Len(conv.items)]
         IN IF ult.rk = "dict" /\ ult.idk \in {"int", "float"}
            THEN [exc |-> FALSE, idk |-> ult.idk, id |-> ult.id + 1]
            ELSE [exc |-> TRUE, idk |-> "int", id |-> 0]

\* texto_encriptado: bytes are decoded as UTF-8 (UnicodeDecodeError escapes).
texto_encriptado_norm(x) ==
    IF x.t = "bytes"
    THEN LET d == utf8_decode(x.v)
         IN [exc |-> ~d.ok, val |-> PyStr(d.s)]
    ELSE [exc |-> FALSE, val |-> x]

\* A faulty variant: the bytes are decoded as text, not Base64-encoded.
codigo_maquina_sin_base64(x) ==
    IF x.t = "bytes" THEN PyStr(utf8_decode(x.v).s) ELSE x

\* codigo_maquina: bytes become their Base64 text.
codigo_maquina_norm(x) ==
    IF x.t = "bytes" THEN PyStr(utf8_decode(b64encode(x.v)).s) ELSE x

\* registro_final, stamped with utcnow().isoformat() + "Z"
registro_final(nid, registro, enc, cm, t) ==
    Item("dict", nid.idk, nid.id,
         [registro EXCEPT !.texto_encriptado = enc, !.codigo_maquina = cm],
         PyStr(isoformat(t) \o <<90>>))

\* A faulty variant: the record is inserted at the front.
append_al_inicio(items, r) == <<r>> \o items

\* conversiones.append(registro_final)
append(items, r) == Append(items, r)

\* What an operation gave its caller.  fin: "retorno" | "excepcion".
\* exc: "leer" (raised by _inicializar_archivo), "contenido" (TypeError,
\* KeyError or AttributeError on the document's shape), "normalizar"
\* (UnicodeDecodeError), "escribir" (the raise after _escribir_todo gave False).
\* valk/val: the value returned.  escritura: how _escribir_todo ended.
Res(op, fin, exc, valk, val, arg, escritura) ==
    [op |-> op, fin |-> fin, exc |-> exc, valk |-> valk, val |-> val,
     arg |-> arg, escritura |-> escritura]
Excepcion(op, exc, arg, escritura) ==
    Res(op, "excepcion", exc, "nada", <<>>, arg, escritura)
Hecho(a, l, res, reinit) ==
    [archivo |-> a, leido |-> l, res |-> res, reinit |-> reinit]

\* agregar_conversion(registro) at instant t; wi: how the write of a
\* reinitialisation ends, we: how the write of _escribir_todo ends.
agregar_conversion(a, registro, t, wi, we) ==
    LET L == leer_todo(a, wi) IN
    IF L.exc
    THEN Hecho(L.archivo, L.archivo, Excepcion("agregar", "leer", 0, "ninguna"), L.reinit)
    ELSE IF L.data.top # "dict"
    THEN Hecho(L.archivo, L.archivo, Excepcion("agregar", "contenido", 0, "ninguna"), L.reinit)
    ELSE
    LET conv == conversiones_de(L.data)
        nid == next_id(conv)
        enc == texto_encriptado_norm(registro.texto_encriptado)
        cm == codigo_maquina_norm(registro.codigo_maquina)
    IN
    IF nid.exc \/ (~enc.exc /\ conv.ck # "list")
    THEN Hecho(L.archivo, L.archivo, Excepcion("agregar", "contenido", 0, "ninguna"), L.reinit)
    ELSE IF enc.exc
    THEN Hecho(L.archivo, L.archivo, Excepcion("agregar", "normalizar", 0, "ninguna"), L.reinit)
    ELSE
    LET rf == registro_final(nid, registro, enc.val, cm, t)
        data2 == Documento("dict", "list", append(conv.items, rf))
        W == escribir_todo(L.archivo, data2, we)
        como == IF W.exito THEN "ok"
                ELSE IF W.archivo = L.archivo THEN "fallo_abrir" ELSE "fallo_volcar"
    IN
    IF W.exito
    THEN Hecho(W.archivo, L.archivo,
               Res("agregar", "retorno", "", "registro", <<rf>>, 0, como), L.reinit)
    ELSE Hecho(W.archivo, L.archivo, Excepcion("agregar", "escribir", 0, como), L.reinit)

\* listar_conversiones
listar_conversiones(a, wi) ==
    LET L == leer_todo(a, wi) IN
    IF L.exc
    THEN Hecho(L.archivo, L.archivo, Excepcion("listar", "leer", 0, "ninguna"), L.reinit)
    ELSE IF L.data.top # "dict"
    THEN Hecho(L.archivo, L.archivo, Excepcion("listar", "contenido", 0, "ninguna"), L.reinit)
    ELSE
    LET conv == conversiones_de(L.data)
        valk == CASE conv.ck = "list" -> "lista" [] conv.ck = "None" -> "None"
                  [] OTHER -> "otro"
    IN Hecho(L.archivo, L.archivo,
             Res("listar", "retorno", "", valk, conv.items, 0, "ninguna"), L.reinit)

\* A faulty variant: the scan keeps the last match, not the first.
RECURSIVE buscar_ultimo(_, _)
buscar_ultimo(lista, id_) ==
    IF lista = <<>> THEN [exc |-> FALSE, hay |-> FALSE, r |-> <<>>]
    ELSE IF lista[1].rk # "dict" THEN [exc |-> TRUE, hay |-> FALSE, r |-> <<>>]
    ELSE LET resto == buscar_ultimo(Tail(lista), id_)
         IN IF resto.exc \/ resto.hay THEN resto
            ELSE IF lista[1].idk = "int" /\ lista[1].id = id_
            THEN [exc |-> FALSE, hay |-> TRUE, r |-> <<lista[1]>>]
            ELSE resto

\* A faulty variant: the comparison is off by one.
RECURSIVE buscar_desplazado(_, _)
buscar_desplazado(lista, id_) ==
    IF lista = <<>> THEN [exc |-> FALSE, hay |-> FALSE, r |-> <<>>]
    ELSE IF lista[1].rk # "dict" THEN [exc |-> TRUE, hay |-> FALSE, r |-> <<>>]
    ELSE IF lista[1].idk = "int" /\ lista[1].id = id_ + 1
    THEN [exc |-> FALSE, hay |-> TRUE, r |-> <<lista[1]>>]
    ELSE buscar_desplazado(Tail(lista), id_)

\* for r in lista: if r.get("id") == id_: return r   (then: return None)
\* [exc, hay, r]: r.get raises on an element that is no dict.
RECURSIVE buscar(_, _)
buscar(lista, id_) ==
    IF lista = <<>> THEN [exc |-> FALSE, hay |-> FALSE, r |-> <<>>]
    ELSE IF lista[1].rk # "dict" THEN [exc |-> TRUE, hay |-> FALSE, r |-> <<>>]
    ELSE IF lista[1].idk = "int" /\ lista[1].id = id_
    THEN [exc |-> FALSE, hay |-> TRUE, r |-> <<lista[1]>>]
    ELSE buscar(Tail(lista), id_)

\* obtener_por_id(id_)
obtener_por_id(a, id_, wi) ==
    LET T == listar_conversiones(a, wi) IN
    IF T.res.fin = "excepcion"
    THEN Hecho(T.archivo, T.leido, Excepcion("obtener", T.res.exc, id_, "ninguna"), T.reinit)
    ELSE IF T.res.valk # "lista"
    THEN Hecho(T.archivo, T.leido, Excepcion("obtener", "contenido", id_, "ninguna"), T.reinit)
    ELSE
    LET b == buscar(T.res.val, id_) IN
    IF b.exc
    THEN Hecho(T.archivo, T.leido, Excepcion("obtener", "contenido", id_, "ninguna"), T.reinit)
    ELSE Hecho(T.archivo, T.leido,
               Res("obtener", "retorno", "", IF b.hay THEN "registro" ELSE "None",
                   b.r, id_, "ninguna"), T.reinit)

\* A faulty variant: the file is initialised without asking whether it exists.
construir_sin_comprobar(a, wi) ==
    LET i == inicializar_archivo(a, wi)
    IN Hecho(i.archivo, i.archivo,
             IF i.exc THEN Excepcion("construir", "leer", 0, "ninguna")
             ELSE Res("construir", "retorno", "", "nada", <<>>, 0, "ninguna"),
             ~i.exc)

\* StorageManager(archivo): the file is created only when it does not exist.
construir(a, wi) ==
    IF a.estado = "ausente"
    THEN LET i == inicializar_archivo(a, wi)
         IN Hecho(i.archivo, i.archivo,
                  IF i.exc THEN Excepcion("construir", "leer", 0, "ninguna")
                  ELSE Res("construir", "retorno", "", "nada", <<>>, 0, "ninguna"),
                  ~i.exc)
    ELSE Hecho(a, a, Res("construir", "retorno", "", "nada", <<>>, 0, "ninguna"), FALSE)

\* ------------------------------------------------------------- actions
Init ==
    /\ archivo = ArchivoVacio
    /\ resultado = Res("construir", "retorno", "", "nada", <<>>, 0, "ninguna")
    /\ antes = ArchivoAusente
    /\ leido = ArchivoVacio
    /\ devueltos = <<>>
    /\ max_previo = 0
    /\ entrada = RegGui
    /\ hilos = <<>>
    /\ gui = <<>>
    /\ audio = <<>>

\* agregar_conversion returned a record.
AgregarOk(res) == res.op = "agregar" /\ res.fin = "retorno"

\* The highest id returned so far, the last operation included.
MaxDevuelto ==
    IF AgregarOk(resultado) /\ resultado.val[1].id > max_previo
    THEN resultado.val[1].id ELSE max_previo

\* One whole operation h; the history variables follow it.
Paso(h) ==
    /\ archivo' = h.archivo
    /\ resultado' = h.res
    /\ antes' = archivo
    /\ leido' = h.leido
    /\ devueltos' =
         LET base == IF h.reinit THEN <<>> ELSE devueltos
         IN IF AgregarOk(h.res) THEN Append(base, h.res.val[1]) ELSE base
    /\ max_previo' = MaxDevuelto

\* A reinitialisation writes only when the file does not parse (or, in the
\* constructor, does not exist): only then does its write have an outcome.
EscriturasReinit(a) == IF a.estado = "json" THEN {"ok"} ELSE Escrituras

Construir ==
    /\ \E wi \in EscriturasReinit(archivo) : Paso(construir(archivo, wi))
    /\ UNCHANGED <<entrada, hilos, gui, audio>>

AgregarConversion ==
    /\ archivo.estado = "json" => Len(archivo.doc.items) < MaxRegs
    /\ \E registro \in Registros, t \in 1..MaxReloj,
          wi \in EscriturasReinit(archivo), we \in Escrituras :
         Paso(agregar_conversion(archivo, registro, t, wi, we))
    /\ UNCHANGED <<entrada, hilos, gui, audio>>

ListarConversiones ==
    /\ \E wi \in EscriturasReinit(archivo) : Paso(listar_conversiones(archivo, wi))
    /\ UNCHANGED <<entrada, hilos, gui, audio>>

ObtenerPorId ==
    /\ \E id_ \in 0..(MaxRegs + 1), wi \in EscriturasReinit(archivo) :
         Paso(obtener_por_id(archivo, id_, wi))
    /\ UNCHANGED <<entrada, hilos, gui, audio>>

\* Outside the program: the file is deleted, or overwritten with text that
\* is not JSON.
DanarArchivo ==
    \E a \in {ArchivoAusente, ArchivoTruncado} :
        /\ archivo' = a
        /\ resultado' = Res("externo", "retorno", "", "nada", <<>>, 0, "ninguna")
        /\ antes' = archivo
        /\ leido' = a
        /\ UNCHANGED devueltos
        /\ max_previo' = MaxDevuelto
        /\ UNCHANGED <<entrada, hilos, gui, audio>>

Next ==
    \/ Construir
    \/ AgregarConversion
    \/ ListarConversiones
    \/ ObtenerPorId
    \/ DanarArchivo

Spec == Init /\ [][Next]_vars

\* Outside the program: the file is overwritten with JSON that the program
\* did not write.
CamposExternos ==
    CamposDump(Registro(PyStr(<<99>>), PyStr(<<47, 99>>), PyStr(<<>>),
                        PyNone, PyNone, PyNone, PyDict(3)))
ItemExterno(rk, idk, id) ==
    Item(rk, idk, id, CamposExternos, json_dump_val(PyStr(<<1, 90>>)))
DocsExternos ==
    { Documento("array", "ausente", <<>>),
      Documento("string", "ausente", <<>>),
      Documento("number", "ausente", <<>>),
      Documento("object", "ausente", <<>>),
      Documento("object", "null", <<>>),
      Documento("object", "string", <<>>),
      Documento("object", "number", <<>>),
      Documento("object", "array", <<ItemExterno("object", "ausente", 0)>>),
      Documento("object", "array", <<ItemExterno("object", "str", 0)>>),
      Documento("object", "array", <<ItemExterno("object", "float", 1)>>),
      Documento("object", "array", <<ItemExterno("number", "ausente", 0)>>),
      Documento("object", "array",
                <<ItemExterno("object", "int", 2), ItemExterno("object", "int", 1)>>) }

EditarArchivo ==
    \E d \in DocsExternos :
        /\ archivo' = Archivo("json", d)
        /\ resultado' = Res("externo", "retorno", "", "nada", <<>>, 0, "ninguna")
        /\ antes' = archivo
        /\ leido' = Archivo("json", d)
        /\ devueltos' = <<>>
        /\ max_previo' = MaxDevuelto
        /\ UNCHANGED <<entrada, hilos, gui, audio>>

NextExterno ==
    \/ Next
    \/ EditarArchivo

SpecExterno == Init /\ [][NextExterno]_vars

\* ------------------------------------------- one call, any field value
MaxBytes == 3   \* the longest byte string passed in a field

\* Byte values: an ASCII letter, the two bytes of a two-byte UTF-8 character,
\* and a byte that is never valid UTF-8.
Bytes == {65, 195, 169, 255}

\* The byte strings of length n or less.
RECURSIVE Cadenas(_)
Cadenas(n) ==
    IF n = 0 THEN {<<>>}
    ELSE LET c == Cadenas(n - 1)
         IN c \cup {Append(b, x) : b \in c, x \in Bytes}

\* What registro.get("texto_encriptado") or registro.get("codigo_maquina")
\* can be: absent, text, or bytes.
ValoresCampo ==
    {PyNone, PyStr(<<>>), PyStr(<<65>>), PyStr(<<233, 65>>)}
        \cup {PyBytes(b) : b \in Cadenas(MaxBytes)}

Entradas ==
    {[RegGui EXCEPT !.texto_encriptado = x, !.codigo_maquina = PyNone] :
        x \in ValoresCampo}
    \cup {[RegGui EXCEPT !.texto_encriptado = PyNone, !.codigo_maquina = x] :
        x \in ValoresCampo}

InitEntrada ==
    /\ archivo = ArchivoVacio
    /\ resultado = Res("construir", "retorno", "", "nada", <<>>, 0, "ninguna")
    /\ antes = ArchivoAusente
    /\ leido = ArchivoVacio
    /\ devueltos = <<>>
    /\ max_previo = 0
    /\ entrada \in Entradas
    /\ hilos = <<>>
    /\ gui = <<>>
    /\ audio = <<>>

\* agregar_conversion(entrada), once, on the empty document.
AgregarEntrada ==
    /\ resultado.op = "construir"
    /\ \E t \in 1..MaxReloj, we \in Escrituras :
         Paso(agregar_conversion(archivo, entrada, t, "ok", we))
    /\ UNCHANGED <<entrada, hilos, gui, audio>>

NextEntrada == AgregarEntrada

SpecEntrada == InitEntrada /\ [][NextEntrada]_vars

\* --------------------------------------- two calls on their own threads
\* Each click of 'Guardar' runs on a new thread and nothing locks the file:
\* the steps of two calls of agregar_conversion interleave.
Hilos == {1, 2}

\* The registro each thread passes.
RegistroDe(h) == IF h = 1 THEN RegGui ELSE RegBytes

\* A thread: pc is where its call is ("inactivo", "leido": _leer_todo
\* returned and registro_final is built, "abierto": _escribir_todo has opened
\* the file, "hecho": the call ended); base is the list it read, rf its
\* registro_final, fin how the call ended, ultimo whether the latest dump
\* into the file is this thread's.
Hilo(pc, base, rf, fin, ultimo) ==
    [pc |-> pc, base |-> base, rf |-> rf, fin |-> fin, ultimo |-> ultimo]
HiloInactivo == Hilo("inactivo", <<>>, <<>>, "", FALSE)

\* agregar_conversion between _leer_todo and _escribir_todo: the id, the
\* normalised fields and the record.
preparar(data, registro, t) ==
    IF data.top # "dict" THEN [exc |-> TRUE, rf |-> <<>>]
    ELSE LET conv == conversiones_de(data)
             nid == next_id(conv)
             enc == texto_encriptado_norm(registro.texto_encriptado)
             cm == codigo_maquina_norm(registro.codigo_maquina)
         IN IF nid.exc \/ enc.exc \/ conv.ck # "list"
            THEN [exc |-> TRUE, rf |-> <<>>]
            ELSE [exc |-> FALSE,
                  rf |-> <<registro_final(nid, registro, enc.val, cm, t)>>]

\* open(.., 'w'): the file is emptied.
abrir(a) == ArchivoTruncado

\* json.dump and the close, through a descriptor opened before: the text
\* goes in from offset 0.  On a file still empty it is the whole content; on
\* a file another descriptor has written since, it replaces the content when
\* it is longer, leaves a tail of the other text when it is shorter, and
\* either (gana) when both hold as many records.
volcar(a, data, gana) ==
    IF a.estado # "json" THEN Archivo("json", json_dump(data))
    ELSE IF Len(data.items) > Len(a.doc.items)
            \/ (Len(data.items) = Len(a.doc.items) /\ gana)
    THEN Archivo("json", json_dump(data))
    ELSE ArchivoTruncado

InitHilos ==
    /\ archivo = ArchivoVacio
    /\ resultado = Res("construir", "retorno", "", "nada", <<>>, 0, "ninguna")
    /\ antes = ArchivoAusente
    /\ leido = ArchivoVacio
    /\ devueltos = <<>>
    /\ max_previo = 0
    /\ entrada = RegGui
    /\ hilos = [h \in Hilos |-> HiloInactivo]
    /\ gui = <<>>
    /\ audio = <<>>

\* Thread h: data = self._leer_todo() (which rewrites a file it cannot
\* parse) up to registro_final.
LeerHilo(h) ==
    /\ hilos[h].pc \in {"inactivo", "hecho"}
    /\ archivo.estado = "json" => Len(archivo.doc.items) < MaxRegs
    /\ \E t \in 1..MaxReloj :
         LET L == leer_todo(archivo, "ok")
             P == preparar(L.data, RegistroDe(h), t)
         IN /\ archivo' = L.archivo
            /\ hilos' = [hilos EXCEPT ![h] =
                  IF P.exc
                  THEN Hilo("hecho", L.data.items, <<>>, "excepcion", hilos[h].ultimo)
                  ELSE Hilo("leido", L.data.items, P.rf, "", hilos[h].ultimo)]
    /\ UNCHANGED <<resultado, antes, leido, devueltos, max_previo, entrada, gui, audio>>

\* Thread h: _escribir_todo opens the file.
AbrirHilo(h) ==
    /\ hilos[h].pc = "leido"
    /\ archivo' = abrir(archivo)
    /\ hilos' = [hilos EXCEPT ![h].pc = "abierto"]
    /\ UNCHANGED <<resultado, antes, leido, devueltos, max_previo, entrada, gui, audio>>

\* Thread h: _escribir_todo dumps the document and returns True;
\* agregar_conversion returns registro_final.
VolcarHilo(h) ==
    /\ hilos[h].pc = "abierto"
    /\ \E gana \in BOOLEAN :
         archivo' = volcar(archivo,
                           Documento("dict", "list",
                                     append(hilos[h].base, hilos[h].rf[1])),
                           gana)
    /\ hilos' = [k \in Hilos |->
                   IF k = h THEN [hilos[h] EXCEPT !.pc = "hecho", !.fin = "retorno",
                                                  !.ultimo = TRUE]
                   ELSE [hilos[k] EXCEPT !.ultimo = FALSE]]
    /\ UNCHANGED <<resultado, antes, leido, devueltos, max_previo, entrada, gui, audio>>

NextHilos ==
    \E h \in Hilos :
        \/ LeerHilo(h)
        \/ AbrirHilo(h)
        \/ VolcarHilo(h)

SpecHilos == InitHilos /\ [][NextHilos]_vars

\* ------------------------------------- a reader beside the two writers
\* listar_conversiones called while the threads run agregar_conversion: its
\* _leer_todo reads the file as it is at that moment.
NextLector ==
    \/ NextHilos
    \/ ListarConversiones

SpecLector == InitHilos /\ [][NextLector]_vars

\* ------------------------------------------- two clicks on 'Guardar'
\* Two clicks, each guardar_registro on its own thread and run once, on a
\* store that holds no record, one, or two.
RegistroUno == preparar(DataVacio, RegGui, 1).rf[1]
RegistroDos == preparar(Documento("dict", "list", <<RegistroUno>>), RegBytes, 1).rf[1]
ArchivosIniciales ==
    {Archivo("json", json_dump(Documento("dict", "list", items))) :
        items \in {<<>>, <<RegistroUno>>, <<RegistroUno, RegistroDos>>}}

\* antes: the file before the two clicks.
InitClics ==
    /\ archivo \in ArchivosIniciales
    /\ resultado = Res("construir", "retorno", "", "nada", <<>>, 0, "ninguna")
    /\ antes = archivo
    /\ leido = ArchivoVacio
    /\ devueltos = <<>>
    /\ max_previo = 0
    /\ entrada = RegGui
    /\ hilos = [h \in Hilos |-> HiloInactivo]
    /\ gui = <<>>
    /\ audio = <<>>

\* The click's thread starts: guardar_registro calls agregar_conversion.
LeerClic(h) ==
    /\ hilos[h].pc = "inactivo"
    /\ LeerHilo(h)

\* agregar_conversion returned to guardar_registro, which shows
\* 'exito_guardado'.
ExitoGuardado(h) == hilos[h].pc = "hecho" /\ hilos[h].fin = "retorno"

NextClics ==
    \E h \in Hilos :
        \/ LeerClic(h)
        \/ AbrirHilo(h)
        \/ VolcarHilo(h)

SpecClics == InitClics /\ [][NextClics]_vars

\* ------------------------------------------------------ EncriptadorFernet
\* str.strip(): whitespace taken off both ends.
Espacios == {9, 10, 13, 32}
RECURSIVE lstrip(_)
lstrip(s) ==
    IF s # <<>> /\ s[1] \in Espacios THEN lstrip(Tail(s)) ELSE s
RECURSIVE rstrip(_)
rstrip(s) ==
    IF s # <<>> /\ s[Len(s)] \in Espacios
    THEN rstrip(SubSeq(s, 1, Len(s) - 1)) ELSE s
strip(s) == rstrip(lstrip(s))

\* The initialisation vectors Fernet may draw.
IVs == {1}

\* cipher.encrypt: the token starts gA, carries the iv, and holds every byte
\* shifted by the iv, as two characters of the Base64 alphabet.
RECURSIVE cifrar(_, _)
cifrar(b, iv) ==
    IF b = <<>> THEN <<>>
    ELSE <<b64_char((b[1] + iv) % 64), b64_char((b[1] + iv) \div 64)>>
            \o cifrar(Tail(b), iv)
fernet_encrypt(b, iv) == <<103, 65, b64_char(iv)>> \o cifrar(b, iv)

\* cipher.decrypt: InvalidToken for anything cipher.encrypt does not produce.
RECURSIVE descifrar(_, _)
descifrar(c, iv) ==
    IF c = <<>> THEN [ok |-> TRUE, b |-> <<>>]
    ELSE IF Len(c) < 2 \/ ~EsB64(c[1]) \/ ~EsB64(c[2])
            \/ b64_val(c[1]) + 64 * b64_val(c[2]) < iv
            \/ b64_val(c[1]) + 64 * b64_val(c[2]) - iv > 255
    THEN [ok |-> FALSE, b |-> <<>>]
    ELSE LET r == descifrar(SubSeq(c, 3, Len(c)), iv)
         IN [ok |-> r.ok,
             b |-> <<b64_val(c[1]) + 64 * b64_val(c[2]) - iv>> \o r.b]
fernet_decrypt(token) ==
    IF Len(token) < 3 \/ token[1] # 103 \/ token[2] # 65 \/ ~EsB64(token[3])
    THEN [ok |-> FALSE, b |-> <<>>]
    ELSE descifrar(SubSeq(token, 4, Len(token)), b64_val(token[3]))

\* `not x` of Python for None, str and bytes.
Falso(x) == x.t = "None" \/ x.v = <<>>

\* A faulty variant: an empty text is encrypted like any other.
encriptar_texto_sin_validar(texto, iv) ==
    [exc |-> FALSE, token |-> PyBytes(fernet_encrypt(utf8_encode(texto.v), iv))]

\* EncriptadorFernet.encriptar_texto(texto): ValueError for an empty or
\* whitespace-only text, else the token (bytes).
encriptar_texto(texto, iv) ==
    IF Falso(texto) \/ strip(texto.v) = <<>>
    THEN [exc |-> TRUE, token |-> PyNone]
    ELSE [exc |-> FALSE, token |-> PyBytes(fernet_encrypt(utf8_encode(texto.v), iv))]

\* EncriptadorFernet.desencriptar_texto(token): ValueError for an empty
\* token and for one that does not decrypt to UTF-8 text.
desencriptar_texto(token) ==
    IF Falso(token) THEN [exc |-> TRUE, texto |-> PyNone]
    ELSE LET d == fernet_decrypt(token.v)
             u == utf8_decode(d.b)
         IN IF d.ok /\ u.ok THEN [exc |-> FALSE, texto |-> PyStr(u.s)]
            ELSE [exc |-> TRUE, texto |-> PyNone]

\* ----------------------------------------------------------------- AppGUI
\* The audio files the user can pick: /a holds speech ("hi"), /b a recording
\* the recogniser gives a blank text for.
Audios == {1, 2}
ruta_de(f) == <<47, 96 + f>>
bytes_de(f) == <<82, 72 + f>>
voz_de(f) == IF f = 1 THEN <<104, 105>> ELSE <<32>>
audio_en(ruta) == CHOOSE f \in Audios : ruta_de(f) = ruta

\* os.path.basename
RECURSIVE basename(_)
basename(s) ==
    IF \E k \in 1..Len(s) : s[k] = 47 THEN basename(Tail(s)) ELSE s

\* messagebox.showinfo / showwarning / showerror of the last handler that
\* ran: which handler, which kind ("ninguno": it showed none), which message.
Dialogo(accion, tipo, msj) == [accion |-> accion, tipo |-> tipo, msj |-> msj]

Gui(ruta_audio, texto_extraido, texto_encriptado, bytes_audio, dialogo) ==
    [ruta_audio |-> ruta_audio, texto_extraido |-> texto_extraido,
     texto_encriptado |-> texto_encriptado, bytes_audio |-> bytes_audio,
     dialogo |-> dialogo]

\* AppGUI.__init__
GuiInicial == Gui(PyNone, PyStr(<<>>), PyNone, PyNone, Dialogo("", "ninguno", ""))

\* seleccionar_archivo: ruta is what the file dialog gave ("" when it was
\* cancelled); legible: whether the file could be read.
seleccionar_archivo(g, ruta, legible) ==
    IF Falso(ruta) THEN [g EXCEPT !.dialogo = Dialogo("seleccionar", "ninguno", "")]
    ELSE IF legible
    THEN [g EXCEPT !.ruta_audio = ruta,
                   !.bytes_audio = PyBytes(bytes_de(audio_en(ruta.v))),
                   !.dialogo = Dialogo("seleccionar", "ninguno", "")]
    ELSE [g EXCEPT !.ruta_audio = ruta,
                   !.dialogo = Dialogo("seleccionar", "error", "info")]

\* convertir_a_texto; reconocido: whether extraer_texto_de_audio returned.
convertir_a_texto(g, reconocido) ==
    IF Falso(g.ruta_audio)
    THEN [g EXCEPT !.dialogo = Dialogo("convertir", "warning", "seleccione")]
    ELSE IF reconocido
    THEN [g EXCEPT !.texto_extraido = PyStr(voz_de(audio_en(g.ruta_audio.v))),
                   !.dialogo = Dialogo("convertir", "info", "exito_conversion")]
    ELSE [g EXCEPT !.dialogo = Dialogo("convertir", "error", "excepcion")]

\* AppGUI.encriptar_texto
gui_encriptar_texto(g, iv) ==
    IF strip(g.texto_extraido.v) = <<>>
    THEN [g EXCEPT !.dialogo = Dialogo("encriptar", "warning", "no_hay_texto")]
    ELSE LET c == encriptar_texto(g.texto_extraido, iv)
         IN IF c.exc
            THEN [g EXCEPT !.dialogo = Dialogo("encriptar", "error", "excepcion")]
            ELSE [g EXCEPT !.texto_encriptado = c.token,
                           !.dialogo = Dialogo("encriptar", "info", "exito_encriptacion")]

\* AppGUI.desencriptar_texto
gui_desencriptar_texto(g) ==
    IF Falso(g.texto_encriptado)
    THEN [g EXCEPT !.dialogo = Dialogo("desencriptar", "warning", "no_hay_encriptado")]
    ELSE LET d == desencriptar_texto(g.texto_encriptado)
         IN IF d.exc
            THEN [g EXCEPT !.dialogo = Dialogo("desencriptar", "error", "excepcion")]
            ELSE [g EXCEPT !.dialogo =
                               Dialogo("desencriptar", "info", "exito_desencriptacion")]

\* The registro guardar_registro builds.
registro_gui(g) ==
    Registro(PyStr(basename(g.ruta_audio.v)), g.ruta_audio, g.texto_extraido,
             g.texto_encriptado,
             IF Falso(g.bytes_audio) THEN PyNone
             ELSE PyStr(utf8_decode(b64encode(g.bytes_audio.v)).s),
             PyNum(audio_en(g.ruta_audio.v)), PyDict(audio_en(g.ruta_audio.v)))

\* A faulty variant: the record is built whether a file is selected or not
\* (os.path.basename(None) raises).
guardar_registro_sin_guardia(g, a, t, wi, we) ==
    IF Falso(g.ruta_audio)
    THEN [llamado |-> FALSE,
          gui |-> [g EXCEPT !.dialogo = Dialogo("guardar", "error", "excepcion")]]
    ELSE LET h == agregar_conversion(a, registro_gui(g), t, wi, we)
         IN [llamado |-> TRUE, h |-> h,
             gui |-> [g EXCEPT !.dialogo =
                        IF h.res.fin = "retorno"
                        THEN Dialogo("guardar", "info", "exito_guardado")
                        ELSE Dialogo("guardar", "error", "excepcion")]]

\* A faulty variant: the success message is shown whatever happened.
guardar_registro_siempre_exito(g, a, t, wi, we) ==
    IF Falso(g.ruta_audio)
    THEN [llamado |-> FALSE,
          gui |-> [g EXCEPT !.dialogo = Dialogo("guardar", "warning", "seleccione")]]
    ELSE LET h == agregar_conversion(a, registro_gui(g), t, wi, we)
         IN [llamado |-> TRUE, h |-> h,
             gui |-> [g EXCEPT !.dialogo =
                        Dialogo("guardar", "info", "exito_guardado")]]

\* guardar_registro on file a at instant t: llamado tells whether
\* agregar_conversion was called, h what that call did.
guardar_registro(g, a, t, wi, we) ==
    IF Falso(g.ruta_audio)
    THEN [llamado |-> FALSE,
          gui |-> [g EXCEPT !.dialogo = Dialogo("guardar", "warning", "seleccione")]]
    ELSE LET h == agregar_conversion(a, registro_gui(g), t, wi, we)
         IN [llamado |-> TRUE, h |-> h,
             gui |-> [g EXCEPT !.dialogo =
                        IF h.res.fin = "retorno"
                        THEN Dialogo("guardar", "info", "exito_guardado")
                        ELSE Dialogo("guardar", "error", "excepcion")]]

MaxGuardados == 1   \* 'Guardar' is clicked only while the list is shorter

InitGui ==
    /\ archivo = ArchivoVacio
    /\ resultado = Res("construir", "retorno", "", "nada", <<>>, 0, "ninguna")
    /\ antes = ArchivoAusente
    /\ leido = ArchivoVacio
    /\ devueltos = <<>>
    /\ max_previo = 0
    /\ entrada = RegGui
    /\ hilos = <<>>
    /\ gui = GuiInicial
    /\ audio = <<>>

SeleccionarArchivo ==
    /\ \E ruta \in {PyStr(<<>>)} \cup {PyStr(ruta_de(f)) : f \in Audios},
          legible \in BOOLEAN :
         gui' = seleccionar_archivo(gui, ruta, legible)
    /\ UNCHANGED <<almacen, entrada, hilos, audio>>

ConvertirATexto ==
    /\ \E reconocido \in BOOLEAN : gui' = convertir_a_texto(gui, reconocido)
    /\ UNCHANGED <<almacen, entrada, hilos, audio>>

EncriptarTexto ==
    /\ \E iv \in IVs : gui' = gui_encriptar_texto(gui, iv)
    /\ UNCHANGED <<almacen, entrada, hilos, audio>>

DesencriptarTexto ==
    /\ gui' = gui_desencriptar_texto(gui)
    /\ UNCHANGED <<almacen, entrada, hilos, audio>>

GuardarRegistro ==
    /\ archivo.estado = "json" => Len(archivo.doc.items) < MaxGuardados
    /\ \E wi \in EscriturasReinit(archivo), we \in Escrituras :
         LET G == guardar_registro(gui, archivo, 1, wi, we)
         IN /\ gui' = G.gui
            /\ IF G.llamado THEN Paso(G.h) ELSE UNCHANGED almacen
    /\ UNCHANGED <<entrada, hilos, audio>>

NextGui ==
    \/ SeleccionarArchivo
    \/ ConvertirATexto
    \/ EncriptarTexto
    \/ DesencriptarTexto
    \/ GuardarRegistro

SpecGui == InitGui /\ [][NextGui]_vars

\* ----------------------------------------------------------- AudioConverter
\* A path: the name without extension, as its parts, and the extension.
Ruta(nombre, ext) == [nombre |-> nombre, ext |-> ext]

\* The files a call can be given: a.mp3, a wav file that has the very name
\* of a.mp3's temporary file, c.txt, and g.mp3, larger than TAMANO_MAX_MB.
RutaMp3 == Ruta(<<"a">>, ".mp3")
RutaWav == Ruta(<<"a", "_temp">>, ".wav")
RutaTxt == Ruta(<<"c">>, ".txt")
RutaGrande == Ruta(<<"g">>, ".mp3")
Rutas == {RutaMp3, RutaWav, RutaTxt, RutaGrande}
SinRuta == Ruta(<<>>, "")

FORMATOS_PERMITIDOS == {".mp3", ".wav", ".ogg", ".flac", ".m4a", ".wma", ".aac"}

\* os.path.join(AUDIOS_DIR, f"{nombre_sin_ext}_temp.wav"), the input taken to
\* lie in AUDIOS_DIR.
ruta_temp(ruta) == Ruta(Append(ruta.nombre, "_temp"), ".wav")

\* validar_archivo: the file exists, its extension is allowed, its size is.
validar_archivo(d, ruta) ==
    /\ ruta \in d
    /\ ruta.ext \in FORMATOS_PERMITIDOS
    /\ ruta # RutaGrande

\* convertir_a_wav; c: "ok", "fallo_cargar" (AudioSegment.from_file raises)
\* or "fallo_exportar" (audio.export raises with the file already created).
convertir_a_wav(d, ruta, c) ==
    CASE c = "ok" ->
           [exc |-> FALSE, disco |-> d \cup {ruta_temp(ruta)}, ruta_wav |-> ruta_temp(ruta)]
      [] c = "fallo_exportar" ->
           [exc |-> TRUE, disco |-> d \cup {ruta_temp(ruta)}, ruta_wav |-> SinRuta]
      [] OTHER -> [exc |-> TRUE, disco |-> d, ruta_wav |-> SinRuta]

\* if ruta_wav and os.path.exists(ruta_wav): os.remove(ruta_wav)
limpiar(d, ruta_wav) == IF ruta_wav # SinRuta THEN d \ {ruta_wav} ELSE d

\* What a call of extraer_texto_de_audio did: fin "retorno" | "excepcion",
\* ruta_wav the temporary file convertir_a_wav returned (SinRuta: none),
\* previo the disk when the call began.
Extraccion(ruta, fin, exc, ruta_wav, previo) ==
    [ruta |-> ruta, fin |-> fin, exc |-> exc, ruta_wav |-> ruta_wav,
     previo |-> previo]
Audio(disco, llamada) == [disco |-> disco, llamada |-> llamada]

\* A faulty variant: the temporary file is removed only when the text was
\* recognised.
extraer_texto_de_audio_sin_limpiar(d, ruta, c, r) ==
    IF ~validar_archivo(d, ruta)
    THEN Audio(d, Extraccion(ruta, "excepcion", "ValueError", SinRuta, d))
    ELSE LET w == IF ruta.ext # ".wav" THEN convertir_a_wav(d, ruta, c)
                  ELSE [exc |-> c # "ok", disco |-> d, ruta_wav |-> SinRuta]
         IN IF w.exc
            THEN Audio(w.disco, Extraccion(ruta, "excepcion", "otra", SinRuta, d))
            ELSE IF r = "texto"
            THEN Audio(limpiar(w.disco, w.ruta_wav),
                       Extraccion(ruta, "retorno", "", w.ruta_wav, d))
            ELSE Audio(w.disco, Extraccion(ruta, "excepcion", r, w.ruta_wav, d))

\* extraer_texto_de_audio(ruta) on disk d; c: how the conversion (or, for a
\* wav file, AudioSegment.from_wav) ends; r: how the recognition ends:
\* "texto", "UnknownValueError", "RequestError" or "otra" (any other
\* exception, as from sr.AudioFile).
extraer_texto_de_audio(d, ruta, c, r) ==
    IF ~validar_archivo(d, ruta)
    THEN Audio(d, Extraccion(ruta, "excepcion", "ValueError", SinRuta, d))
    ELSE LET w == IF ruta.ext # ".wav" THEN convertir_a_wav(d, ruta, c)
                  ELSE [exc |-> c # "ok", disco |-> d, ruta_wav |-> SinRuta]
         IN IF w.exc
            THEN Audio(w.disco, Extraccion(ruta, "excepcion", "otra", SinRuta, d))
            ELSE IF r = "texto"
            THEN Audio(limpiar(w.disco, w.ruta_wav),
                       Extraccion(ruta, "retorno", "", w.ruta_wav, d))
            ELSE Audio(limpiar(w.disco, w.ruta_wav),
                       Extraccion(ruta, "excepcion", r, w.ruta_wav, d))

SinLlamada == Extraccion(SinRuta, "", "", SinRuta, {})

InitAudio ==
    /\ archivo = ArchivoVacio
    /\ resultado = Res("construir", "retorno", "", "nada", <<>>, 0, "ninguna")
    /\ antes = ArchivoAusente
    /\ leido = ArchivoVacio
    /\ devueltos = <<>>
    /\ max_previo = 0
    /\ entrada = RegGui
    /\ hilos = <<>>
    /\ gui = <<>>
    /\ audio = Audio(Rutas, SinLlamada)

ExtraerTexto ==
    /\ \E ruta \in Rutas,
          c \in {"ok", "fallo_cargar", "fallo_exportar"},
          r \in {"texto", "UnknownValueError", "RequestError", "otra"} :
         audio' = extraer_texto_de_audio(audio.disco, ruta, c, r)
    /\ UNCHANGED <<almacen, entrada, hilos, gui>>

\* Outside the program: the user deletes a file, or puts it back.
CambiarDisco ==
    /\ \E ruta \in Rutas :
         audio' = Audio(IF ruta \in audio.disco THEN audio.disco \ {ruta}
                        ELSE audio.disco \cup {ruta},
                        SinLlamada)
    /\ UNCHANGED <<almacen, entrada, hilos, gui>>

NextAudio ==
    \/ ExtraerTexto
    \/ CambiarDisco

SpecAudio == InitAudio /\ [][NextAudio]_vars

\* ============================================================== claims
\* The records of a file, as a reader gets them (none when it does not parse).
RegistrosDe(a) == IF a.estado = "json" THEN json_load(a.doc).items ELSE <<>>

EsOperacion(res) == res.op \in {"construir", "agregar", "listar", "obtener"}
EscrituraFallida(res) ==
    res.op = "agregar" /\ res.escritura \in {"fallo_abrir", "fallo_volcar"}

\* C1: from the empty store, the k-th successful agregar_conversion call
\* returns the record whose id is k (1, 2, 3, ... in call order).
C1_IdsEnOrdenDeLlamada ==
    \A k \in 1..Len(devueltos) :
        devueltos[k].idk = "int" /\ devueltos[k].id = k

\* C1 witness: MaxRegs successful calls since the store was empty.
C1_Witness ==
    AgregarOk(resultado) /\ Len(devueltos) = MaxRegs

\* C2: whenever the file holds a document, the ids of its records are
\* integers, pairwise distinct and strictly increasing in list order.
C2_IdsCrecientesEnDocumento ==
    archivo.estado = "json" =>
        /\ \A i \in 1..Len(archivo.doc.items) : archivo.doc.items[i].idk = "int"
        /\ \A i, j \in 1..Len(archivo.doc.items) :
              i < j => archivo.doc.items[i].id < archivo.doc.items[j].id

\* C2 witness: a call whose write failed at open left a list of two or more
\* records in the file.
C2_Witness ==
    /\ resultado.op = "agregar" /\ resultado.escritura = "fallo_abrir"
    /\ archivo.estado = "json" /\ Len(archivo.doc.items) >= 2

\* C3 as stated: every id agregar_conversion returns is greater than every id
\* returned before it in the life of the store (so none is returned twice).
C3_IdsNuncaRepetidos ==
    AgregarOk(resultado) => resultado.val[1].id > max_previo

\* C3 amended: every id agregar_conversion returns is greater than every id
\* returned since the file was last reinitialised to the empty document.
C3_IdsCrecientesDesdeReinicio ==
    AgregarOk(resultado) =>
        \A k \in 1..(Len(devueltos) - 1) : devueltos[k].id < resultado.val[1].id

\* C3 witness: after a reinitialisation, a second record is returned whose id
\* had already been returned before the reinitialisation.
C3_Witness ==
    /\ AgregarOk(resultado) /\ Len(devueltos) >= 2
    /\ resultado.val[1].id <= max_previo

\* C4 as stated (append-only): after every StorageManager operation, each
\* record the file held before the operation is still in the file, with the
\* same field values, at the same place in the list.
C4_SoloAgrega ==
    EsOperacion(resultado) =>
        \A i \in 1..Len(RegistrosDe(antes)) :
            /\ Len(RegistrosDe(archivo)) >= i
            /\ RegistrosDe(archivo)[i] = RegistrosDe(antes)[i]

\* C5 as stated (all-or-nothing write): whenever _escribir_todo fails, the
\* file holds exactly what it held when _escribir_todo was called.
C5_EscrituraTodoONada ==
    EscrituraFallida(resultado) => archivo = leido

\* C6 as stated: when the write step of agregar_conversion fails, the call
\* raises, and a subsequent listar_conversiones returns exactly the records
\* that were present before the failed call (the listing itself meeting no
\* I/O failure).
C6_FalloNoGuarda ==
    EscrituraFallida(resultado) =>
        /\ resultado.fin = "excepcion"
        /\ LET T == listar_conversiones(archivo, "ok")
           IN /\ T.res.fin = "retorno"
              /\ T.res.val = RegistrosDe(antes)

\* C7 as stated: when the file is missing or is not valid JSON, the read step
\* of listar_conversiones, obtener_por_id and agregar_conversion raises
\* nothing and leaves the file holding the empty document.
C7_RecuperaSinExcepcion ==
    ( /\ resultado.op \in {"agregar", "listar", "obtener"}
      /\ antes.estado \in {"ausente", "texto_invalido"} ) =>
        /\ resultado.exc # "leer"
        /\ leido = ArchivoVacio

\* C8 as stated: no StorageManager operation raises because of what the file
\* contains, or because it can be neither read nor rewritten.
C8_NuncaLanzaPorContenido ==
    EsOperacion(resultado) => resultado.exc \notin {"leer", "contenido"}

\* C9: listar_conversiones returns exactly the records agregar_conversion
\* returned since the store was empty, in the order of the calls.
C9_ListarDevuelveLoAgregado ==
    (resultado.op = "listar" /\ resultado.fin = "retorno") =>
        /\ resultado.valk = "lista"
        /\ resultado.val = devueltos

\* C9 witness: a listing of two or more records, not all alike.
C9_Witness ==
    /\ resultado.op = "listar" /\ resultado.fin = "retorno"
    /\ Len(resultado.val) >= 2
    /\ resultado.val[1].campos # resultado.val[2].campos

\* C10: when agregar_conversion returns r, the last record of the file reads
\* back as r, field for field, and obtener_por_id(r.id) returns r.
C10_DevueltoEsLoPersistido ==
    AgregarOk(resultado) =>
        LET r == resultado.val[1]
            O == obtener_por_id(archivo, r.id, "ok")
        IN /\ archivo.estado = "json"
           /\ Len(archivo.doc.items) >= 1
           /\ ItemLoad(archivo.doc.items[Len(archivo.doc.items)]) = r
           /\ O.res.fin = "retorno" /\ O.res.valk = "registro"
           /\ O.res.val = <<r>>
           /\ O.archivo = archivo

\* C10 witness: the record returned is not the first one, and its byte-valued
\* fields were normalised (texto_encriptado decoded, codigo_maquina "UklGRg==").
C10_Witness ==
    /\ AgregarOk(resultado) /\ resultado.val[1].id >= 2
    /\ resultado.val[1].campos.texto_encriptado = PyStr(<<233>>)
    /\ resultado.val[1].campos.codigo_maquina =
          PyStr(<<85, 107, 108, 71, 82, 103, 61, 61>>)

\* The file holds a Document: an object whose 'conversiones', when present,
\* is a list of objects.
DocBienFormado(a) ==
    /\ a.estado = "json" /\ a.doc.top = "object"
    /\ a.doc.ck \in {"array", "ausente"}
    /\ \A k \in 1..Len(a.doc.items) : a.doc.items[k].rk = "object"

\* The places of the list l whose record has the integer id i.
LugaresConId(l, i) == {k \in 1..Len(l) : l[k].idk = "int" /\ l[k].id = i}

\* C11: on a file holding a Document, obtener_por_id(i) returns the first
\* record in storage order whose id is i, and None when there is none (as for
\* i = 0 and for every i above the highest id).
C11_ObtenerPrimeroONone ==
    (resultado.op = "obtener" /\ DocBienFormado(leido)) =>
        LET l == RegistrosDe(leido)
            hits == LugaresConId(l, resultado.arg)
        IN /\ resultado.fin = "retorno"
           /\ IF hits = {}
              THEN resultado.valk = "None" /\ resultado.val = <<>>
              ELSE /\ resultado.valk = "registro"
                   /\ \E k \in hits :
                        /\ \A j \in hits : k <= j
                        /\ resultado.val = <<l[k]>>

\* C11 witness: the id asked for is held by two records that differ, and the
\* call returned one.
C11_Witness ==
    /\ resultado.op = "obtener" /\ resultado.valk = "registro"
    /\ \E j, k \in LugaresConId(RegistrosDe(leido), resultado.arg) :
          RegistrosDe(leido)[j] # RegistrosDe(leido)[k]

\* The file holds the whole document agregar_conversion passed to
\* _escribir_todo: the list it read and one record more.
DocumentoEscrito ==
    /\ archivo.estado = "json"
    /\ Len(RegistrosDe(archivo)) = Len(RegistrosDe(leido)) + 1
    /\ \A k \in 1..Len(RegistrosDe(leido)) :
          RegistrosDe(archivo)[k] = RegistrosDe(leido)[k]

\* C13: _escribir_todo never raises: once agregar_conversion has called it,
\* the call ends either returning (True: the whole document is in the file)
\* or with the exception agregar_conversion raises on False; True is returned
\* only when the whole document has been written.
C13_EscribirDevuelveBool ==
    (resultado.op = "agregar" /\ resultado.escritura # "ninguna") =>
        /\ resultado.fin = "excepcion" => resultado.exc = "escribir"
        /\ resultado.fin = "retorno" <=> DocumentoEscrito
        /\ resultado.fin = "retorno" =>
              RegistrosDe(archivo)[Len(RegistrosDe(archivo))] = resultado.val[1]

\* C13 witness: the dump failed after the file was opened, and the call ended
\* with the exception of line 219.
C13_Witness ==
    /\ resultado.op = "agregar" /\ resultado.escritura = "fallo_volcar"
    /\ resultado.exc = "escribir" /\ archivo = ArchivoTruncado
    /\ Len(RegistrosDe(leido)) >= 1

\* C15: constructing a StorageManager over a file that exists, whatever it
\* holds, leaves the file as it was (and raises nothing); over no file, a
\* construction that returns has created the empty document.
C15_ConstruirIdempotente ==
    resultado.op = "construir" =>
        /\ antes.estado # "ausente" => (archivo = antes /\ resultado.fin = "retorno")
        /\ (antes.estado = "ausente" /\ resultado.fin = "retorno") =>
              archivo = ArchivoVacio

\* C15 witness: a construction over a file that exists and is not JSON.
C15_Witness ==
    /\ resultado.op = "construir" /\ antes = ArchivoTruncado
    /\ archivo = ArchivoTruncado

\* The rule of the data model: the maximum existing id (0 when there is none).
MaxId(l) ==
    IF l = <<>> THEN 0
    ELSE CHOOSE m \in {l[k].id : k \in 1..Len(l)} :
            \A k \in 1..Len(l) : l[k].id <= m

\* C19: in every document the operations produce, last id + 1 (1 when the
\* list is empty), the rule of the code, is maximum id + 1 (1 when empty), the
\* rule of the data model; and every id assigned is a positive integer.
C19_UltimoMasUnoEsMaximoMasUno ==
    /\ archivo.estado = "json" =>
          LET conv == conversiones_de(json_load(archivo.doc))
              n == next_id(conv)
          IN /\ ~n.exc /\ n.idk = "int"
             /\ n.id = MaxId(conv.items) + 1
    /\ AgregarOk(resultado) =>
          (resultado.val[1].idk = "int" /\ resultado.val[1].id >= 1)

\* C19 witness: a record was appended to a list that already held another,
\* and the file holds both.
C19_Witness ==
    /\ AgregarOk(resultado) /\ Len(RegistrosDe(leido)) >= 1
    /\ resultado.val[1].id = MaxId(RegistrosDe(archivo))
    /\ MaxId(RegistrosDe(leido)) >= 1

\* base64.b64decode: four characters give three bytes, less the padding.
RECURSIVE b64decode(_)
b64decode(s) ==
    IF s = <<>> THEN [ok |-> TRUE, b |-> <<>>]
    ELSE IF Len(s) < 4 \/ ~EsB64(s[1]) \/ ~EsB64(s[2]) THEN [ok |-> FALSE, b |-> <<>>]
    ELSE LET v1 == b64_val(s[1])
             v2 == b64_val(s[2])
             b1 == v1 * 4 + (v2 \div 16)
         IN IF s[3] = 61 /\ s[4] = 61
            THEN [ok |-> Len(s) = 4, b |-> <<b1>>]
            ELSE IF ~EsB64(s[3]) THEN [ok |-> FALSE, b |-> <<>>]
            ELSE LET v3 == b64_val(s[3])
                     b2 == (v2 % 16) * 16 + (v3 \div 4)
                 IN IF s[4] = 61
                    THEN [ok |-> Len(s) = 4, b |-> <<b1, b2>>]
                    ELSE IF ~EsB64(s[4]) THEN [ok |-> FALSE, b |-> <<>>]
                    ELSE LET r == b64decode(SubSeq(s, 5, Len(s)))
                         IN [ok |-> r.ok,
                             b |-> <<b1, b2, (v3 % 4) * 64 + b64_val(s[4])>> \o r.b]

\* The call of agregar_conversion(entrada) has been made.
EntradaHecha == resultado.op = "agregar"

\* The field k of the record the file holds after the call, as read back.
Persistido(k) == RegistrosDe(archivo)[Len(RegistrosDe(archivo))].campos[k]

DosLlamadasSolapadas ==
    /\ \A h \in Hilos : hilos[h].pc = "hecho" /\ hilos[h].fin = "retorno"
    /\ hilos[1].base = hilos[2].base

\* C12: two calls of agregar_conversion that both read before either writes
\* both return, return the same id, and leave in the file the list they read
\* plus the record of the one that wrote last only (or, when their dumps
\* overlapped, text that does not parse): the other record is lost.
C12_ActualizacionPerdida ==
    DosLlamadasSolapadas =>
        /\ hilos[1].rf[1].id = hilos[2].rf[1].id
        /\ hilos[1].rf[1].id = MaxId(hilos[1].base) + 1
        /\ \E h \in Hilos :
              /\ hilos[h].ultimo
              /\ \A k \in Hilos \ {h} : ~hilos[k].ultimo
              /\ archivo.estado = "json" =>
                    RegistrosDe(archivo) = hilos[h].base \o hilos[h].rf

\* Read, read, write, write on a list of one record: both returned id 2 and
\* the file holds that record and the second writer's.
C12_Witness ==
    /\ DosLlamadasSolapadas
    /\ Len(hilos[1].base) = 1
    /\ hilos[1].rf[1].id = 2 /\ hilos[2].rf[1].id = 2
    /\ hilos[1].rf # hilos[2].rf
    /\ hilos[2].ultimo
    /\ archivo.estado = "json"
    /\ RegistrosDe(archivo) = hilos[2].base \o hilos[2].rf

\* C16: the cipher raises ValueError for an empty or whitespace-only text and
\* for an empty token, and a click on Encrypt or Decrypt with such input
\* shows no success, and leaves texto_encriptado and the file as they were.
C16_EntradaVaciaRechazada ==
    [][/\ (gui'.dialogo.accion = "encriptar" /\ strip(gui.texto_extraido.v) = <<>>) =>
            /\ \A iv \in IVs : encriptar_texto(gui.texto_extraido, iv).exc
            /\ gui'.texto_encriptado = gui.texto_encriptado
            /\ gui'.dialogo.tipo # "info"
            /\ archivo' = archivo
       /\ (gui'.dialogo.accion = "desencriptar" /\ Falso(gui.texto_encriptado)) =>
            /\ desencriptar_texto(gui.texto_encriptado).exc
            /\ desencriptar_texto(PyBytes(<<>>)).exc
            /\ gui'.texto_encriptado = gui.texto_encriptado
            /\ gui'.dialogo.tipo # "info"
            /\ archivo' = archivo]_vars

\* Encrypt was clicked on a whitespace-only transcription while a token of
\* an earlier text and a saved record were there, and was refused.
C16_Witness ==
    /\ gui.dialogo.accion = "encriptar"
    /\ gui.dialogo.tipo = "warning"
    /\ gui.texto_extraido.v = <<32>>
    /\ ~Falso(gui.texto_encriptado)
    /\ Len(RegistrosDe(archivo)) >= 1

\* The record the last click on 'Guardar' saved.
GuardadoOk == gui.dialogo.accion = "guardar" /\ gui.dialogo.tipo = "info"
Guardado == resultado.val[1].campos

\* C17 as stated: guardar_registro appends a record only if the selected
\* file has been transcribed and the transcription encrypted.  Violated: a
\* file is selected and saved at once.
C17_GuardarTrasEncriptar ==
    GuardadoOk =>
        /\ Guardado.texto.v # <<>>
        /\ Guardado.texto_encriptado # PyNone

\* C17, amended: each handler acts exactly when its own guard holds:
\* convertir_a_texto and guardar_registro when a file is selected,
\* encriptar_texto when the text is not blank, desencriptar_texto when there
\* is a token; every record of the file names a selected file.  Neither a
\* transcription nor an encryption is needed to save.
C17_GuardiaDeCadaAccion ==
    LET d == gui.dialogo IN
    /\ d.accion \in {"convertir", "guardar"} =>
          (d.tipo = "warning" <=> Falso(gui.ruta_audio))
    /\ d.accion = "encriptar" =>
          /\ d.tipo = "warning" <=> strip(gui.texto_extraido.v) = <<>>
          /\ d.tipo = "info" => ~Falso(gui.texto_encriptado)
    /\ d.accion = "desencriptar" =>
          (d.tipo = "warning" <=> Falso(gui.texto_encriptado))
    /\ (d.accion = "guardar" /\ d.tipo # "warning") => resultado.op = "agregar"
    /\ \A k \in 1..Len(RegistrosDe(archivo)) :
          \E f \in Audios : RegistrosDe(archivo)[k].campos.ruta = PyStr(ruta_de(f))

\* A file was selected and saved, never transcribed nor encrypted.
C17_Witness ==
    /\ GuardadoOk
    /\ Guardado.texto.v = <<>>
    /\ Guardado.texto_encriptado = PyNone
    /\ RegistrosDe(archivo)[Len(RegistrosDe(archivo))].campos = Guardado

\* C18: guardar_registro shows the success message only when
\* agregar_conversion returned a record and the file holds it, and an error
\* dialog whenever agregar_conversion raised.
C18_GuardadoInformadoFielmente ==
    (gui.dialogo.accion = "guardar" /\ gui.dialogo.tipo # "warning") =>
        /\ gui.dialogo.tipo \in {"info", "error"}
        /\ gui.dialogo.tipo = "info" <=> AgregarOk(resultado)
        /\ gui.dialogo.tipo = "error" <=> resultado.fin = "excepcion"
        /\ gui.dialogo.tipo = "info" =>
              /\ gui.dialogo.msj = "exito_guardado"
              /\ archivo.estado = "json"
              /\ RegistrosDe(archivo)[Len(RegistrosDe(archivo))] = resultado.val[1]

\* A save whose write failed after the file was opened: the error dialog.
C18_Witness ==
    /\ gui.dialogo.accion = "guardar"
    /\ gui.dialogo.tipo = "error"
    /\ resultado.exc = "escribir"
    /\ resultado.escritura = "fallo_volcar"
    /\ archivo = ArchivoTruncado

\* C20: a saved record's texto is the transcription of the file its ruta
\* names (or empty, when none was made), its texto_encriptado, when not null,
\* decrypts to that texto, and its codigo_maquina is the Base64 of that
\* file's bytes (or null, when they were not read).  Violated: a second file
\* is selected after the first was transcribed, and saved.
C20_RegistroCoherente ==
    GuardadoOk =>
        LET f == audio_en(Guardado.ruta.v)
        IN /\ Guardado.texto.v \in {<<>>, voz_de(f)}
           /\ Guardado.texto_encriptado # PyNone =>
                 desencriptar_texto(PyBytes(utf8_encode(Guardado.texto_encriptado.v)))
                     = [exc |-> FALSE, texto |-> Guardado.texto]
           /\ Guardado.codigo_maquina \in
                 {PyNone, PyStr(utf8_decode(b64encode(bytes_de(f))).s)}

\* C22: listar_conversiones and obtener_por_id leave a file that parses as
\* JSON exactly as it was; when they do change the file it did not parse (or
\* was missing) and what they leave is the reinitialised file.
C22_LecturaNoEscribe ==
    resultado.op \in {"listar", "obtener"} =>
        /\ antes.estado = "json" => archivo = antes
        /\ archivo # antes =>
              /\ antes.estado # "json"
              /\ archivo \in {ArchivoVacio, ArchivoTruncado}

\* A list of two records was listed and the file is as before.
C22_Witness ==
    /\ resultado.op = "listar"
    /\ resultado.fin = "retorno"
    /\ antes.estado = "json"
    /\ Len(RegistrosDe(antes)) >= 2
    /\ Len(resultado.val) >= 2
    /\ archivo = antes

\* A call of extraer_texto_de_audio has ended.
ExtraccionHecha == audio.llamada.fin \in {"retorno", "excepcion"}

\* C23: when a call of extraer_texto_de_audio has ended, however it ended,
\* the temporary file convertir_a_wav returned to it does not exist, and the
\* file it was given still exists if it existed when the call began, a wav
\* input included.
C23_TemporalBorradoEntradaIntacta ==
    ExtraccionHecha =>
        /\ audio.llamada.ruta_wav # SinRuta =>
              /\ audio.llamada.ruta_wav = ruta_temp(audio.llamada.ruta)
              /\ audio.llamada.ruta_wav \notin audio.disco
        /\ audio.llamada.ruta \in audio.llamada.previo =>
              audio.llamada.ruta \in audio.disco
        /\ audio.llamada.ruta.ext = ".wav" => audio.llamada.ruta_wav = SinRuta

\* a.mp3 was converted, the recogniser did not understand it, and the
\* temporary file is gone while a.mp3 is there.
C23_Witness ==
    /\ audio.llamada.ruta = RutaMp3
    /\ audio.llamada.fin = "excepcion"
    /\ audio.llamada.exc = "UnknownValueError"
    /\ audio.llamada.ruta_wav = ruta_temp(RutaMp3)
    /\ ruta_temp(RutaMp3) \notin audio.disco
    /\ RutaMp3 \in audio.disco

\* C21 as stated: a listar_conversiones that runs beside agregar_conversion
\* (a step that is no writer's step) finds a file that parses, returns the
\* list it holds and leaves it as it is.  Violated: the writer has opened the
\* file and not yet dumped; the reader finds it empty, rewrites it as the
\* empty document and returns no records.
C21_LecturaAtomica ==
    [][hilos' = hilos =>
          /\ archivo.estado = "json"
          /\ archivo' = archivo
          /\ resultado'.fin = "retorno"
          /\ resultado'.val = RegistrosDe(archivo)]_vars

\* Both clicks ended with the success message.
AmbosExito == \A h \in Hilos : ExitoGuardado(h)

\* Thread b read the file after thread a had written it, and a had read it
\* as it was before the clicks: the two runs came one after the other.
Seguidos(a, b) ==
    /\ hilos[a].base = RegistrosDe(antes)
    /\ hilos[b].base = RegistrosDe(antes) \o hilos[a].rf

\* C24 as stated: after two clicks that both ended with the success message
\* the document holds exactly two records more than before, and the two
\* records returned have distinct ids.  Violated: both threads read before
\* either writes.
C24_CadaClicUnRegistro ==
    AmbosExito =>
        /\ archivo.estado = "json"
        /\ Len(RegistrosDe(archivo)) = Len(RegistrosDe(antes)) + 2
        /\ hilos[1].rf[1].id # hilos[2].rf[1].id

\* C24, amended: after two clicks that both ended with the success message,
\* each returned the last id of the list it read plus one; when the runs
\* came one after the other the document is the one before plus the two
\* records, in that order, with distinct ids; when they overlapped, a
\* document that parses is the list read by the thread that dumped last plus
\* that thread's record only, so it holds fewer than two records more than
\* before.
C24_ClicsSeguidosOSolapados ==
    AmbosExito =>
        /\ \A h \in Hilos : hilos[h].rf[1].id = MaxId(hilos[h].base) + 1
        /\ \A a \in Hilos : \A b \in Hilos \ {a} :
              Seguidos(a, b) =>
                  /\ archivo.estado = "json"
                  /\ RegistrosDe(archivo)
                        = RegistrosDe(antes) \o hilos[a].rf \o hilos[b].rf
                  /\ hilos[a].rf[1].id # hilos[b].rf[1].id
        /\ (~Seguidos(1, 2) /\ ~Seguidos(2, 1) /\ archivo.estado = "json") =>
              /\ \E u \in Hilos :
                    /\ hilos[u].ultimo
                    /\ RegistrosDe(archivo) = hilos[u].base \o hilos[u].rf
              /\ Len(RegistrosDe(archivo)) < Len(RegistrosDe(antes)) + 2

\* Two clicks on a store of two records, both successful, both returning
\* id 3, and the document holds three records.
C24_Witness ==
    /\ AmbosExito
    /\ Len(RegistrosDe(antes)) = 2
    /\ hilos[1].rf[1].id = 3 /\ hilos[2].rf[1].id = 3
    /\ archivo.estado = "json"
    /\ Len(RegistrosDe(archivo)) = 3
====
